---- MODULE Spec2Model ----
(***************************************************************************)
(* Model of the web-eid web extension's signing flow:                      *)
(*   - coerceOrigin           (shared/utils/coerceOrigin)                  *)
(*   - WebServerService       (background/services/WebServerService)       *)
(*   - sign                   (background/actions/sign)                    *)
(* One sign invocation owns one WebServerService session and up to two     *)
(* NativeAppService channels.  Every await of the code is a step boundary. *)
(***************************************************************************)
EXTENDS Integers, Sequences, FiniteSets, TLC

(***************************************************************************)
(* Bounds                                                                  *)
(***************************************************************************)
\* number of distinct certificate fingerprints a server may present
MaxFingerprint == 2

\* number of calls one session issues when driven operation by operation
MaxCalls == 3

(***************************************************************************)
(* URLs and origins.  A URL string is abstracted to what new URL() makes   *)
(* of it: relative, absolute (scheme, host) or unparsable.                 *)
(***************************************************************************)
Hosts == {"a.example", "b.example"}

Schemes == {"https", "http", "blob:https"}

BadUrl == [kind |-> "bad", scheme |-> "", host |-> ""]

RelUrl == [kind |-> "rel", scheme |-> "", host |-> ""]

AbsUrl(s, h) == [kind |-> "abs", scheme |-> s, host |-> h]

\* getCorsConfigUrl = null
NoUrl == [kind |-> "none", scheme |-> "", host |-> ""]

Urls == {BadUrl, RelUrl} \cup {AbsUrl(s, h) : s \in Schemes, h \in Hosts}

\* corsOrigin = undefined
NoOrigin == [scheme |-> "", host |-> ""]

\* the opaque origin, serialised "null"
NullOrigin == [scheme |-> "null", host |-> "null"]

Origin(s, h) == [scheme |-> s, host |-> h]

\* URL.origin of a parsed absolute URL
OriginOf(u) ==
  IF u.scheme = "blob:https" THEN Origin("https", u.host)
  ELSE IF u.scheme = "data" THEN NullOrigin
  ELSE Origin(u.scheme, u.host)

\* new URL(url, base): BadUrl stands for the TypeError
ResolveUrl(url, base) ==
  IF base = NullOrigin \/ url.kind = "bad" THEN BadUrl
  ELSE IF url.kind = "rel" THEN AbsUrl(base.scheme, base.host)
  ELSE url

\* a mutant of coerceOrigin that forgets the origin comparison
coerceOriginNoCheck(trustedOrigin, url) ==
  LET urlWithTrustedBase == ResolveUrl(url, trustedOrigin) IN
  IF urlWithTrustedBase = BadUrl
    THEN [err |-> "TypeError", href |-> BadUrl]
    ELSE [err |-> "none", href |-> urlWithTrustedBase]

coerceOrigin(trustedOrigin, url) ==
  LET urlWithTrustedBase == ResolveUrl(url, trustedOrigin) IN
  IF urlWithTrustedBase = BadUrl
    THEN [err |-> "TypeError", href |-> BadUrl]
  ELSE IF trustedOrigin # OriginOf(urlWithTrustedBase)
    THEN [err |-> "OriginMismatchError", href |-> urlWithTrustedBase]
  ELSE [err |-> "none", href |-> urlWithTrustedBase]

\* fetchUrl.toLocaleLowerCase().startsWith("https://")
IsHttps(u) == u.kind = "abs" /\ u.scheme = "https"

(***************************************************************************)
(* Responses of the page relay and of the native application               *)
(***************************************************************************)
\* body of the CORS configuration document, reduced to corsConfig.signUrlOrigin
\*   nobody : body is not an object        absent : the key is missing
\*   empty  : ""                            invalid: not a URL
ConfigBodies ==
  {[kind |-> k, scheme |-> "", host |-> ""] : k \in {"nobody", "absent", "empty", "invalid"}}
  \cup {[kind |-> "url", scheme |-> "https", host |-> h] : h \in Hosts}
  \cup {[kind |-> "url", scheme |-> "data", host |-> ""]}

\* body of a prepare response
DocBody == [kind |-> "doc", scheme |-> "", host |-> ""]

NoBody == [kind |-> "none", scheme |-> "", host |-> ""]

NoResp == [ok |-> FALSE, status |-> 0, body |-> NoBody]

\* a response without a JSON object as body
Nobody == [kind |-> "nobody", scheme |-> "", host |-> ""]

\* body of a finalize response
FinalBody == [kind |-> "final", scheme |-> "", host |-> ""]

Bodies(caller) ==
  IF caller \in {"cors", "s_cors"} THEN ConfigBodies
  ELSE IF caller = "prepare" THEN {DocBody, Nobody}
  ELSE IF caller = "s_fetch" THEN {DocBody}
  ELSE {FinalBody}

\* HttpResponse as returned by browser.tabs.sendMessage
Responses(caller) ==
  {[ok |-> o, status |-> IF o THEN 200 ELSE 400, body |-> b] :
     o \in BOOLEAN, b \in Bodies(caller)}

SenderOrigins == {Origin("https", "a.example"), Origin("http", "a.example")}

\* value of the Access-Control-Allow-Origin response header (NoOrigin: no header)
AcaoValues == {NoOrigin} \cup SenderOrigins \cup {Origin("https", "b.example")}

TlsStates == {"secure", "broken", "insecure", "weak", "unknown"}

\* securityInfo as browser.webRequest.getSecurityInfo reports it
SecurityInfos ==
  {[state |-> "secure", fp |-> f] : f \in 1..MaxFingerprint}
  \cup {[state |-> t, fp |-> 0] : t \in TlsStates \ {"secure"}}

\* what the hook of the current call has observed and decided
NotSeen == [ran |-> FALSE, acao |-> NoOrigin, tls |-> "none", fp |-> 0, cancel |-> FALSE]

\* settled state of the promise returned by WebServerService.fetch
NoOutcome == [state |-> "none", kind |-> "none", response |-> NoResp]

Channels == {1, 2}

(***************************************************************************)
(* State                                                                   *)
(***************************************************************************)
VARIABLES
  \* arguments of sign
  postPrepareSigningUrl, postFinalizeSigningUrl, getCorsConfigUrl,
  \* WebServerService fields
  senderOrigin, corsOrigin, fingerprints,
  \* locals of the WebServerService.fetch invocation in progress
  fpc, fetchFor, fetchUrl, fetchError, certificateInfo, hasWebRequestPermission,
  \* browser.webRequest.onHeadersReceived listeners currently registered
  listeners,
  \* observation of the hook of the current call, outcome of the current fetch
  seen, fetchOutcome,
  \* messages sent with browser.tabs.sendMessage, in order
  calls,
  \* what browser.tabs.sendMessage resolved with for the current call
  relayed,
  \* sign: position, returned value, exception escaping to the caller
  pc, result, thrown, failedAt, prepareDocumentResult,
  \* sign: the nativeAppService local, the channels, close() calls per channel
  nativeAppService, chanState, closeCount, nativePending,
  \* commands given to nativeAppService.send, in order, with their replies
  commands,
  \* the step whose timer has won its race
  timedOut,
  \* a call that another session (another page, another WebServerService)
  \* has in flight
  other

sessionVars == <<senderOrigin, corsOrigin, fingerprints>>

argVars == <<postPrepareSigningUrl, postFinalizeSigningUrl, getCorsConfigUrl>>

fetchVars == <<fpc, fetchFor, fetchUrl, fetchError, certificateInfo,
               hasWebRequestPermission, listeners, seen, fetchOutcome, calls, relayed>>

flowVars == <<pc, result, thrown, failedAt, prepareDocumentResult>>

nativeVars == <<nativeAppService, chanState, closeCount, nativePending, commands>>

vars == <<argVars, sessionVars, fetchVars, flowVars, nativeVars, timedOut, other>>

\* the other session has no call in flight
NoOther == [state |-> "none", url |-> BadUrl]

NoResult == [action |-> "none", error |-> "none", response |-> NoResp]

Init ==
  /\ postPrepareSigningUrl \in Urls
  /\ postFinalizeSigningUrl \in Urls
  /\ getCorsConfigUrl \in Urls \cup {NoUrl}
  /\ senderOrigin \in SenderOrigins
  /\ corsOrigin = NoOrigin
  /\ fingerprints = <<>>
  /\ fpc = "idle"
  /\ fetchFor = "none"
  /\ fetchUrl = BadUrl
  /\ fetchError = "none"
  /\ certificateInfo = 0
  /\ hasWebRequestPermission = FALSE
  /\ listeners = {}
  /\ seen = NotSeen
  /\ fetchOutcome = NoOutcome
  /\ calls = <<>>
  /\ relayed = NoResp
  /\ pc = "start"
  /\ result = NoResult
  /\ thrown = "none"
  /\ failedAt = "none"
  /\ prepareDocumentResult = NoResp
  /\ nativeAppService = 0
  /\ chanState = [c \in Channels |-> "none"]
  /\ closeCount = [c \in Channels |-> 0]
  /\ nativePending = {}
  /\ commands = <<>>
  /\ timedOut = "none"
  /\ other = NoOther

(***************************************************************************)
(* WebServerService                                                        *)
(***************************************************************************)
hasCertificateChanged ==
  ~ (\A i \in 1..Len(fingerprints) : fingerprints[1] = fingerprints[i])

\* a mutant of the head of fetch without the HTTPS requirement
FetchBeginAnyProtocol(url) ==
  coerceOrigin(IF corsOrigin # NoOrigin THEN corsOrigin ELSE senderOrigin, url)

\* the synchronous head of fetch: coercion against corsOrigin || senderOrigin,
\* then the HTTPS requirement
FetchBegin(url) ==
  LET c == coerceOrigin(IF corsOrigin # NoOrigin THEN corsOrigin ELSE senderOrigin, url) IN
  IF c.err # "none" THEN c
  ELSE IF ~ IsHttps(c.href) THEN [err |-> "ProtocolInsecureError", href |-> c.href]
  ELSE c

\* a mutant of the hook that lets every Access-Control-Allow-Origin value pass
onHeadersReceivedListenerNoCors(accessControlAllowOrigin, securityInfo) ==
  [fetchError |-> fetchError, cancel |-> FALSE,
   fingerprints |-> fingerprints, certificateInfo |-> certificateInfo]

\* the response-inspection hook.  The switch over securityInfo.state is
\* commented out in the source: securityInfo is read and not used.
onHeadersReceivedListener(accessControlAllowOrigin, securityInfo) ==
  IF corsOrigin # NoOrigin /\ senderOrigin # accessControlAllowOrigin
    THEN [fetchError |-> "OriginMismatchError", cancel |-> TRUE,
          fingerprints |-> fingerprints, certificateInfo |-> certificateInfo]
    ELSE [fetchError |-> fetchError, cancel |-> FALSE,
          fingerprints |-> fingerprints, certificateInfo |-> certificateInfo]

\* a mutant that always asks for a credentialed cross-origin call
RequestModeAlwaysCors(cors) == [mode |-> "cors", credentials |-> "include"]

\* init.mode and init.credentials of the relayed call
RequestMode(cors) ==
  IF cors # NoOrigin
    THEN [mode |-> "cors", credentials |-> "include"]
    ELSE [mode |-> "same-origin", credentials |-> "same-origin"]

\* a mutant of the completion that skips the test of response.ok
FetchCompletionIgnoresOk(response) ==
  IF fetchError # "none"
    THEN [state |-> "rejected", kind |-> fetchError, response |-> NoResp]
    ELSE [state |-> "fulfilled", kind |-> "none",
          response |-> [certificateInfo |-> certificateInfo, ok |-> response.ok,
                        status |-> response.status, body |-> response.body]]

\* a mutant of the completion that forgets the error recorded by the hook
FetchCompletionDropsHookError(response) ==
  IF ~ response.ok
    THEN [state |-> "rejected", kind |-> "ServerRejectedError", response |-> response]
    ELSE [state |-> "fulfilled", kind |-> "none",
          response |-> [certificateInfo |-> certificateInfo, ok |-> response.ok,
                        status |-> response.status, body |-> response.body]]

\* how fetch settles once browser.tabs.sendMessage has resolved with response
FetchCompletion(response) ==
  LET err == IF ~ response.ok
               THEN (IF fetchError # "none" THEN fetchError ELSE "ServerRejectedError")
               ELSE fetchError
  IN IF err # "none"
       THEN [state |-> "rejected", kind |-> err,
             response |-> IF ~ response.ok THEN response ELSE NoResp]
       ELSE [state |-> "fulfilled", kind |-> "none",
             response |-> [certificateInfo |-> certificateInfo, ok |-> response.ok,
                           status |-> response.status, body |-> response.body]]

\* how fetch settles once browser.tabs.sendMessage has rejected
FetchRelayFailure == [state |-> "rejected", kind |-> "RelayError", response |-> NoResp]

\* a mutant of enableCors without the test of the configured origin
EnableCorsResultUnchecked(body) ==
  IF body.kind = "url"
    THEN [err |-> "none", corsOrigin |-> OriginOf(body)]
    ELSE [err |-> "none", corsOrigin |-> corsOrigin]

\* enableCors after the configuration document has been fetched
EnableCorsResult(body) ==
  IF body.kind = "nobody" THEN [err |-> "TypeError", corsOrigin |-> corsOrigin]
  ELSE IF body.kind \in {"absent", "empty"}
    THEN [err |-> "MissingParameterError", corsOrigin |-> corsOrigin]
  ELSE IF body.kind = "invalid" THEN [err |-> "Error:invalid origin", corsOrigin |-> corsOrigin]
  ELSE [err |-> "none", corsOrigin |-> OriginOf(body)]

(***************************************************************************)
(* sign: catch and finally                                                 *)
(***************************************************************************)
\* a mutant of the catch block that rethrows what is not a library error
SignCatchRethrow(error) ==
  IF error.kind = "TypeError"
    THEN [result |-> NoResult, thrown |-> error.kind]
    ELSE [result |-> [action |-> "SIGN_FAILURE", error |-> error.kind,
                      response |-> error.response],
          thrown |-> "none"]

SignCatch(error) ==
  [result |-> [action |-> "SIGN_FAILURE", error |-> error.kind,
               response |-> error.response],
   thrown |-> "none"]

\* a mutant of the finally block that does not close a channel opened at the re-connect
SignFinallyFirstOnly(svc) ==
  IF svc = 1 THEN [closeCount EXCEPT ![svc] = @ + 1] ELSE closeCount

\* nativeAppService?.close()
SignFinally(svc) ==
  IF svc # 0 THEN [closeCount EXCEPT ![svc] = @ + 1] ELSE closeCount

Err(kind) == [kind |-> kind, response |-> NoResp]

\* an error thrown inside the try block by step, while nativeAppService = svc
Fail(error, svc, step) ==
  /\ pc' = "done"
  /\ result' = SignCatch(error).result
  /\ thrown' = SignCatch(error).thrown
  /\ failedAt' = step
  /\ closeCount' = SignFinally(svc)

\* pick(object, keys) for the keys that sign lists
Pick(object) == [ok |-> object.ok, status |-> object.status, body |-> object.body]

\* a mutant of the return statement that projects the prepare response
SucceedWithPrepare(response, svc) ==
  /\ pc' = "done"
  /\ result' = [action |-> "SIGN_SUCCESS", error |-> "none",
                response |-> Pick(prepareDocumentResult)]
  /\ thrown' = "none"
  /\ failedAt' = "none"
  /\ closeCount' = SignFinally(svc)

\* the return statement of the try block
Succeed(response, svc) ==
  /\ pc' = "done"
  /\ result' = [action |-> "SIGN_SUCCESS", error |-> "none", response |-> Pick(response)]
  /\ thrown' = "none"
  /\ failedAt' = "none"
  /\ closeCount' = SignFinally(svc)

\* webServerService.fetch(url, init) called by the step that moves sign to nextpc
BeginFetch(caller, url, svc) ==
  LET b == FetchBegin(url) IN
  IF b.err # "none"
    THEN /\ Fail(Err(b.err), svc, caller)
         /\ UNCHANGED fetchVars
    ELSE /\ fpc' = "perm"
         /\ fetchFor' = caller
         /\ fetchUrl' = b.href
         /\ fetchError' = "none"
         /\ certificateInfo' = 0
         /\ hasWebRequestPermission' = FALSE
         /\ seen' = NotSeen
         /\ fetchOutcome' = [state |-> "pending", kind |-> "none", response |-> NoResp]
         /\ relayed' = NoResp
         /\ pc' = caller
         /\ UNCHANGED <<listeners, calls, result, thrown, failedAt, closeCount>>

(***************************************************************************)
(* Steps of WebServerService.fetch                                         *)
(***************************************************************************)
\* the listener that the fetch invocation in progress has registered
OwnListener == [id |-> Len(calls), url |-> fetchUrl]

\* browser.permissions.contains has settled: register the hook when permitted,
\* then send the "fetch" message to the page
FetchIssue ==
  /\ other' = other
  /\ timedOut' = timedOut
  /\ fpc = "perm"
  /\ \E perm \in BOOLEAN :
       /\ hasWebRequestPermission' = perm
       /\ listeners' = IF perm
                         THEN listeners \cup {[id |-> Len(calls) + 1, url |-> fetchUrl]}
                         ELSE listeners
  /\ calls' = Append(calls,
                [caller |-> fetchFor, url |-> fetchUrl,
                 mode |-> RequestMode(corsOrigin).mode,
                 credentials |-> RequestMode(corsOrigin).credentials,
                 cors |-> corsOrigin, fp |-> 0])
  /\ fpc' = "inflight"
  /\ UNCHANGED <<fetchFor, fetchUrl, fetchError, certificateInfo, seen, fetchOutcome, relayed>>
  /\ UNCHANGED <<argVars, sessionVars, flowVars, nativeVars>>

\* the response headers of the call in flight arrive and the hook runs
HookFires ==
  /\ other' = other
  /\ timedOut' = timedOut
  /\ fpc = "inflight"
  /\ OwnListener \in listeners
  /\ ~ seen.ran
  /\ \E acao \in AcaoValues, securityInfo \in SecurityInfos :
       LET h == onHeadersReceivedListener(acao, securityInfo) IN
       /\ fetchError' = h.fetchError
       /\ certificateInfo' = h.certificateInfo
       /\ fingerprints' = h.fingerprints
       /\ seen' = [ran |-> TRUE, acao |-> acao, tls |-> securityInfo.state,
                   fp |-> securityInfo.fp, cancel |-> h.cancel]
       /\ calls' = [calls EXCEPT ![Len(calls)].fp = securityInfo.fp]
  /\ UNCHANGED <<fpc, fetchFor, fetchUrl, hasWebRequestPermission, listeners, fetchOutcome,
                 relayed>>
  /\ UNCHANGED <<argVars, senderOrigin, corsOrigin, flowVars, nativeVars>>

\* a mutant of the re-connect that keeps the channel of the certificate step
NewNativeAppServiceReused(svc) == svc

\* nativeAppService = new NativeAppService() while nativeAppService = svc
NewNativeAppService(svc) == svc + 1

\* what sign does with the settled fetch it is awaiting; an abandoned fetch
\* (its timer has fired) settles without effect on sign
Continue(out) ==
  IF pc = fetchFor /\ pc = "cors" THEN
    IF out.state = "rejected" THEN
      /\ Fail([kind |-> out.kind, response |-> out.response], nativeAppService, pc)
      /\ UNCHANGED <<corsOrigin, prepareDocumentResult, nativeAppService, chanState, nativePending,
                  commands>>
    ELSE
      LET r == EnableCorsResult(out.response.body) IN
      IF r.err # "none" THEN
        /\ Fail(Err(r.err), nativeAppService, pc)
        /\ UNCHANGED <<corsOrigin, prepareDocumentResult, nativeAppService, chanState, nativePending,
                  commands>>
      ELSE
        /\ corsOrigin' = r.corsOrigin
        /\ pc' = "connect1"
        /\ UNCHANGED <<result, thrown, failedAt, prepareDocumentResult, nativeVars>>
  ELSE IF pc = fetchFor /\ pc = "prepare" THEN
    IF out.state = "rejected" THEN
      /\ Fail([kind |-> out.kind, response |-> out.response], nativeAppService, pc)
      /\ UNCHANGED <<corsOrigin, prepareDocumentResult, nativeAppService, chanState, nativePending,
                  commands>>
    ELSE
      /\ prepareDocumentResult' = out.response
      /\ nativeAppService' = NewNativeAppService(nativeAppService)
      /\ chanState' = [chanState EXCEPT ![NewNativeAppService(nativeAppService)] = "created"]
      /\ pc' = "connect2"
      /\ UNCHANGED <<corsOrigin, result, thrown, failedAt, closeCount, nativePending, commands>>
  ELSE IF pc = fetchFor /\ pc = "finalize" THEN
    /\ IF out.state = "rejected"
         THEN Fail([kind |-> out.kind, response |-> out.response], nativeAppService, pc)
         ELSE Succeed(out.response, nativeAppService)
    /\ UNCHANGED <<corsOrigin, prepareDocumentResult, nativeAppService, chanState, nativePending,
                  commands>>
  ELSE IF pc = fetchFor /\ pc = "s_cors" THEN
    \* enableCors called on the session directly
    /\ corsOrigin' = IF out.state = "rejected"
                       THEN corsOrigin
                       ELSE EnableCorsResult(out.response.body).corsOrigin
    /\ pc' = "ready"
    /\ UNCHANGED <<result, thrown, failedAt, prepareDocumentResult, nativeVars>>
  ELSE IF pc = fetchFor /\ pc = "s_fetch" THEN
    \* fetch called on the session directly
    /\ pc' = "ready"
    /\ UNCHANGED <<corsOrigin, result, thrown, failedAt, prepareDocumentResult, nativeVars>>
  ELSE UNCHANGED <<corsOrigin, flowVars, nativeVars>>

\* removeListener after the await of the try block
RemoveListenerTry(ls) == IF hasWebRequestPermission THEN ls \ {OwnListener} ELSE ls

\* a mutant of the finally block that leaves the listener registered
RemoveListenerFinallyNever(ls) == ls

\* removeListener in the finally block
RemoveListenerFinally(ls) == IF hasWebRequestPermission THEN ls \ {OwnListener} ELSE ls

\* browser.tabs.sendMessage resolves.  A registered blocking listener runs
\* before the page sees the response.
RelayResolves ==
  /\ other' = other
  /\ timedOut' = timedOut
  /\ fpc = "inflight"
  /\ (OwnListener \in listeners) => seen.ran
  /\ \E response \in Responses(fetchFor) :
       LET out == FetchCompletion(response) IN
       /\ fetchOutcome' = out
       /\ relayed' = response
       /\ Continue(out)
  /\ fpc' = "settled"
  /\ listeners' = RemoveListenerFinally(RemoveListenerTry(listeners))
  /\ UNCHANGED <<fetchFor, fetchUrl, fetchError, certificateInfo,
                 hasWebRequestPermission, seen, calls>>
  /\ UNCHANGED <<argVars, senderOrigin, fingerprints>>

\* browser.tabs.sendMessage rejects (network failure, cancelled transfer)
RelayRejects ==
  /\ other' = other
  /\ timedOut' = timedOut
  /\ fpc = "inflight"
  /\ fetchOutcome' = FetchRelayFailure
  /\ Continue(FetchRelayFailure)
  /\ relayed' = NoResp
  /\ fpc' = "settled"
  /\ listeners' = RemoveListenerFinally(listeners)
  /\ UNCHANGED <<fetchFor, fetchUrl, fetchError, certificateInfo,
                 hasWebRequestPermission, seen, calls>>
  /\ UNCHANGED <<argVars, senderOrigin, fingerprints>>

(***************************************************************************)
(* Steps of sign                                                           *)
(***************************************************************************)
\* responses of the native application to a command
NativeResponses == {"ok", "error", "missing", "noalgos"}

\* new URL(url) without a base
ParsesAlone(url) == url.kind = "abs"

\* sign is called: both services are constructed; enableCors coerces the
\* configuration URL against senderOrigin and starts its fetch, or, without
\* a configuration URL, connect() is called
SignStart ==
  /\ other' = other
  /\ timedOut' = timedOut
  /\ pc = "start"
  /\ nativeAppService' = 1
  /\ chanState' = [chanState EXCEPT ![1] = "created"]
  /\ IF getCorsConfigUrl # NoUrl
       THEN LET c == coerceOrigin(senderOrigin, getCorsConfigUrl) IN
            IF c.err # "none"
              THEN Fail(Err(c.err), 1, "cors") /\ UNCHANGED fetchVars
              ELSE BeginFetch("cors", c.href, 1)
       ELSE /\ pc' = "connect1"
            /\ UNCHANGED <<result, thrown, failedAt, closeCount, fetchVars>>
  /\ UNCHANGED <<argVars, sessionVars, prepareDocumentResult, nativePending, commands>>

\* a command handed to nativeAppService.send
Command(name) == [command |-> name, chan |-> nativeAppService, reply |-> "pending"]

\* nativeAppService.connect() resolves; the command of the step is sent
ConnectOk ==
  /\ other' = other
  /\ timedOut' = timedOut
  /\ pc \in {"connect1", "connect2"}
  /\ chanState' = [chanState EXCEPT ![nativeAppService] = "connected"]
  /\ IF pc = "connect1"
       THEN IF ~ ParsesAlone(postPrepareSigningUrl)
              THEN /\ Fail(Err("TypeError"), nativeAppService, "cert")
                   /\ UNCHANGED <<nativePending, commands>>
              ELSE /\ pc' = "cert"
                   /\ nativePending' = nativePending \cup {nativeAppService}
                   /\ commands' = Append(commands, Command("get-signing-certificate"))
                   /\ UNCHANGED <<result, thrown, failedAt, closeCount>>
       ELSE IF prepareDocumentResult.body.kind = "nobody"
              THEN /\ Fail(Err("TypeError"), nativeAppService, "sig")
                   /\ UNCHANGED <<nativePending, commands>>
              ELSE /\ pc' = "sig"
                   /\ nativePending' = nativePending \cup {nativeAppService}
                   /\ commands' = Append(commands, Command("sign"))
                   /\ UNCHANGED <<result, thrown, failedAt, closeCount>>
  /\ UNCHANGED <<argVars, sessionVars, fetchVars, prepareDocumentResult, nativeAppService>>

\* nativeAppService.connect() rejects
ConnectFails ==
  /\ other' = other
  /\ timedOut' = timedOut
  /\ pc \in {"connect1", "connect2"}
  /\ Fail(Err("NativeAppError"), nativeAppService, pc)
  /\ UNCHANGED <<argVars, sessionVars, fetchVars, prepareDocumentResult,
                 nativeAppService, chanState, nativePending, commands>>

\* nativeAppService.send() resolves before the user-interaction timer fires
NativeResponds ==
  /\ other' = other
  /\ timedOut' = timedOut
  /\ pc \in {"cert", "sig"}
  /\ nativePending' = nativePending \ {nativeAppService}
  /\ \E r \in NativeResponses :
      /\ commands' = [commands EXCEPT ![Len(commands)].reply = r]
      /\ IF r = "error"
         THEN Fail(Err("Error:native"), nativeAppService, pc) /\ UNCHANGED fetchVars
       ELSE IF r = "missing"
         THEN Fail(Err("Error:missing"), nativeAppService, pc) /\ UNCHANGED fetchVars
       ELSE IF r = "noalgos" /\ pc = "cert"
         THEN Fail(Err("TypeError"), nativeAppService, pc) /\ UNCHANGED fetchVars
       ELSE IF pc = "cert"
         THEN BeginFetch("prepare", postPrepareSigningUrl, nativeAppService)
         ELSE BeginFetch("finalize", postFinalizeSigningUrl, nativeAppService)
  /\ UNCHANGED <<argVars, sessionVars, prepareDocumentResult, nativeAppService, chanState>>

\* nativeAppService.send() rejects before the user-interaction timer fires
NativeSendFails ==
  /\ other' = other
  /\ timedOut' = timedOut
  /\ pc \in {"cert", "sig"}
  /\ nativePending' = nativePending \ {nativeAppService}
  /\ commands' = [commands EXCEPT ![Len(commands)].reply = "rejected"]
  /\ Fail(Err("NativeAppError"), nativeAppService, pc)
  /\ UNCHANGED <<argVars, sessionVars, fetchVars, prepareDocumentResult,
                 nativeAppService, chanState>>

\* a mutant that reports every timeout as a server timeout
TimeoutErrorAlwaysServer(step) == "ServerTimeoutError"

\* the error handed to throwAfterTimeout in the race of step
TimeoutError(step) ==
  IF step \in {"cert", "sig"} THEN "UserTimeoutError" ELSE "ServerTimeoutError"

\* throwAfterTimeout wins the Promise.race of the step; the other promise
\* of the race is left running
TimerFires ==
  /\ other' = other
  /\ pc \in {"cert", "prepare", "sig", "finalize"}
  /\ Fail(Err(TimeoutError(pc)), nativeAppService, pc)
  /\ timedOut' = pc
  /\ UNCHANGED <<argVars, sessionVars, fetchVars, prepareDocumentResult,
                 nativeAppService, chanState, nativePending, commands>>

\* the native application answers a command whose race the timer has won
NativeRespondsLate ==
  /\ other' = other
  /\ timedOut' = timedOut
  /\ pc = "done"
  /\ \E c \in nativePending : nativePending' = nativePending \ {c}
  /\ commands' = [commands EXCEPT ![Len(commands)].reply = "late"]
  /\ UNCHANGED <<argVars, sessionVars, fetchVars, flowVars,
                 nativeAppService, chanState, closeCount>>

Next ==
  \/ SignStart
  \/ FetchIssue
  \/ HookFires
  \/ RelayResolves
  \/ RelayRejects
  \/ ConnectOk
  \/ ConnectFails
  \/ NativeResponds
  \/ NativeSendFails
  \/ TimerFires
  \/ NativeRespondsLate

Spec == Init /\ [][Next]_vars

TypeOK ==
  /\ pc \in {"start", "cors", "connect1", "cert", "prepare", "connect2", "sig", "finalize",
            "done", "ready", "s_cors", "s_fetch"}
  /\ fpc \in {"idle", "perm", "inflight", "settled"}
  /\ nativeAppService \in {0} \cup Channels
  /\ Len(calls) <= 3

(***************************************************************************)
(* One WebServerService driven operation by operation, next to a call of   *)
(* another session                                                         *)
(***************************************************************************)
\* the session exists and no operation is in progress
SessionInit ==
  /\ postPrepareSigningUrl = BadUrl
  /\ postFinalizeSigningUrl = BadUrl
  /\ getCorsConfigUrl = NoUrl
  /\ senderOrigin \in SenderOrigins
  /\ corsOrigin = NoOrigin
  /\ fingerprints = <<>>
  /\ fpc = "idle"
  /\ fetchFor = "none"
  /\ fetchUrl = BadUrl
  /\ fetchError = "none"
  /\ certificateInfo = 0
  /\ hasWebRequestPermission = FALSE
  /\ listeners = {}
  /\ seen = NotSeen
  /\ fetchOutcome = NoOutcome
  /\ calls = <<>>
  /\ relayed = NoResp
  /\ pc = "ready"
  /\ result = NoResult
  /\ thrown = "none"
  /\ failedAt = "none"
  /\ prepareDocumentResult = NoResp
  /\ nativeAppService = 0
  /\ chanState = [c \in Channels |-> "none"]
  /\ closeCount = [c \in Channels |-> 0]
  /\ nativePending = {}
  /\ commands = <<>>
  /\ timedOut = "none"
  /\ other = NoOther

\* the head of fetch succeeded for url: the fetch invocation of caller starts
SessionBegin(caller, url) ==
  /\ FetchBegin(url).err = "none"
  /\ fpc' = "perm"
  /\ fetchFor' = caller
  /\ fetchUrl' = FetchBegin(url).href
  /\ fetchError' = "none"
  /\ certificateInfo' = 0
  /\ hasWebRequestPermission' = FALSE
  /\ seen' = NotSeen
  /\ fetchOutcome' = [state |-> "pending", kind |-> "none", response |-> NoResp]
  /\ relayed' = NoResp
  /\ pc' = caller
  /\ UNCHANGED <<listeners, calls>>
  /\ UNCHANGED <<argVars, sessionVars, result, thrown, failedAt, prepareDocumentResult,
                 nativeVars, timedOut, other>>

\* enableCors(Action.SIGN, corsConfigUrl) is called and gets as far as its
\* fetch (a call that throws before leaves the session as it was)
SessionEnableCors ==
  /\ pc = "ready"
  /\ Len(calls) < MaxCalls
  /\ \E corsConfigUrl \in Urls :
       /\ coerceOrigin(senderOrigin, corsConfigUrl).err = "none"
       /\ SessionBegin("s_cors", coerceOrigin(senderOrigin, corsConfigUrl).href)

\* fetch(fetchUrl) is called and gets as far as the permission query
SessionFetch ==
  /\ pc = "ready"
  /\ Len(calls) < MaxCalls
  /\ \E url \in Urls : SessionBegin("s_fetch", url)

\* the other session issues a call
OtherIssues ==
  /\ pc \in {"ready", "s_cors", "s_fetch"}
  /\ other.state = "none"
  /\ \E h \in Hosts : other' = [state |-> "inflight", url |-> AbsUrl("https", h)]
  /\ UNCHANGED <<argVars, sessionVars, fetchVars, flowVars, nativeVars, timedOut>>

\* the response headers of the other session's call arrive: the browser runs
\* every registered onHeadersReceived listener whose url filter matches, the
\* listener of this session's call in flight included
OtherHeadersReceived ==
  /\ other.state = "inflight"
  /\ \E acao \in AcaoValues, securityInfo \in SecurityInfos :
       IF \E l \in listeners : l.url = other.url
         THEN LET h == onHeadersReceivedListener(acao, securityInfo) IN
              /\ fetchError' = h.fetchError
              /\ certificateInfo' = h.certificateInfo
              /\ fingerprints' = h.fingerprints
              /\ other' = [other EXCEPT !.state = IF h.cancel THEN "cancelled" ELSE "delivered"]
         ELSE /\ other' = [other EXCEPT !.state = "delivered"]
              /\ UNCHANGED <<fetchError, certificateInfo, fingerprints>>
  /\ UNCHANGED <<fpc, fetchFor, fetchUrl, hasWebRequestPermission, listeners, seen,
                 fetchOutcome, calls, relayed>>
  /\ UNCHANGED <<argVars, senderOrigin, corsOrigin, flowVars, nativeVars, timedOut>>

SessionNext ==
  \/ SessionEnableCors
  \/ SessionFetch
  \/ FetchIssue
  \/ HookFires
  \/ RelayResolves
  \/ RelayRejects
  \/ OtherIssues
  \/ OtherHeadersReceived

SessionSpec == SessionInit /\ [][SessionNext]_vars

\* Timers fire, and the browser answers the permission query; nothing obliges
\* the remote server or the native application to answer.
FairSpec ==
  /\ Spec
  /\ WF_vars(SignStart)
  /\ WF_vars(FetchIssue)
  /\ WF_vars(TimerFires)

(***************************************************************************)
(* Properties                                                              *)
(***************************************************************************)
CallIndexes == 1..Len(calls)

CallsOf(caller) == {i \in CallIndexes : calls[i].caller = caller}

\* the origin a URL is coerced against
BaseOrigin == IF corsOrigin # NoOrigin THEN corsOrigin ELSE senderOrigin

\* the hook of the current call ran and its Access-Control-Allow-Origin check passed
HookPassedCors ==
  /\ seen.ran
  /\ ~ (calls[Len(calls)].cors # NoOrigin /\ senderOrigin # seen.acao)

\* the error of the source's commented-out switch for a TLS state
TlsError(state) ==
  IF state = "broken" THEN "TlsConnectionBrokenError"
  ELSE IF state = "insecure" THEN "TlsConnectionInsecureError"
  ELSE IF state = "weak" THEN "TlsConnectionWeakError"
  ELSE "Error:Unexpected connection security state"

\* C1: the recorded fingerprints of a session are pairwise equal, and a call
\* whose hook sees a secure connection with a fingerprint different from the
\* one of an earlier call of the session has its fetch fail with
\* CertificateChanged, its response not being returned (the relayed call
\* having settled with a response).
C1_CertificateChangedAtCallK ==
  /\ ~ hasCertificateChanged
  /\ (/\ fpc = "settled"
      /\ fetchOutcome # FetchRelayFailure
      /\ HookPassedCors
      /\ seen.tls = "secure"
      /\ \E j \in 1..(Len(calls) - 1) : calls[j].fp # 0 /\ calls[j].fp # seen.fp)
     => (fetchOutcome.state = "rejected" /\ fetchOutcome.kind = "CertificateChangedError")

\* C2: when the hook runs and classifies the connection as anything but
\* secure, the call is marked failed with the error of that state and
\* cancelled, and fetch does not return a response.
C2_NonSecureTlsFails ==
  (HookPassedCors /\ seen.tls # "secure")
    => /\ seen.cancel
       /\ fetchError = TlsError(seen.tls)
       /\ fpc = "settled" => fetchOutcome.state = "rejected"

\* url, given to fetch, resolves to an origin other than the base origin
ResolvesElsewhere(url) ==
  /\ ResolveUrl(url, BaseOrigin) # BadUrl
  /\ OriginOf(ResolveUrl(url, BaseOrigin)) # BaseOrigin

\* C3: every call issued targets the origin that is corsOrigin if set when the
\* call is issued and senderOrigin otherwise; a prepare or finalize URL that
\* resolves to another origin fails with OriginMismatch and no call is issued
\* for it.
C3_CallsStayOnBaseOrigin ==
  /\ \A i \in CallIndexes :
       OriginOf(calls[i].url) =
         (IF calls[i].cors # NoOrigin THEN calls[i].cors ELSE senderOrigin)
  /\ (pc = "done" /\ failedAt = "prepare" /\ ResolvesElsewhere(postPrepareSigningUrl))
       => (result.error = "OriginMismatchError" /\ CallsOf("prepare") = {})
  /\ (pc = "done" /\ failedAt = "finalize" /\ ResolvesElsewhere(postFinalizeSigningUrl))
       => (result.error = "OriginMismatchError" /\ CallsOf("finalize") = {})

\* a finalize URL on another origin is refused after two calls on the negotiated origin
C3_Witness ==
  /\ pc = "done"
  /\ failedAt = "finalize"
  /\ result.error = "OriginMismatchError"
  /\ Len(calls) = 2
  /\ calls[2].cors # NoOrigin
  /\ calls[2].cors # senderOrigin

\* C4: once corsOrigin is set, a fetch whose hook sees an
\* Access-Control-Allow-Origin value other than senderOrigin fails with
\* OriginMismatch, however the relayed call settles.
C4_CorsHeaderMismatchWins ==
  (/\ fpc = "settled"
   /\ calls[Len(calls)].cors # NoOrigin
   /\ seen.ran
   /\ seen.acao # senderOrigin)
    => (fetchOutcome.state = "rejected" /\ fetchOutcome.kind = "OriginMismatchError")

\* the URL that sign hands to fetch at a step
UrlOf(caller) ==
  IF caller = "prepare" THEN postPrepareSigningUrl ELSE postFinalizeSigningUrl

\* url is an absolute non-HTTPS URL, or relative to a non-HTTPS base origin
NotHttps(url) ==
  \/ url.kind = "abs" /\ url.scheme # "https"
  \/ url.kind = "rel" /\ BaseOrigin.scheme # "https"

\* C5 as stated: a fetch of a non-HTTPS URL fails with ProtocolInsecure and
\* issues no call.
C5_NonHttpsIsProtocolInsecure ==
  \A caller \in {"prepare", "finalize"} :
    (pc = "done" /\ failedAt = caller /\ NotHttps(UrlOf(caller)))
      => (result.error = "ProtocolInsecureError" /\ CallsOf(caller) = {})

\* C5 amended: a fetch of a URL that resolves against the base origin to a
\* non-HTTPS URL issues no call and fails, with ProtocolInsecure when the URL
\* resolves to the base origin and with OriginMismatch when it resolves to
\* another origin.
C5_NonHttpsFailsBeforeCall ==
  \A caller \in {"prepare", "finalize"} :
    LET u == ResolveUrl(UrlOf(caller), BaseOrigin) IN
    (pc = "done" /\ failedAt = caller /\ u # BadUrl /\ u.scheme # "https")
      => /\ CallsOf(caller) = {}
         /\ result.action = "SIGN_FAILURE"
         /\ result.error = (IF OriginOf(u) = BaseOrigin
                              THEN "ProtocolInsecureError"
                              ELSE "OriginMismatchError")

\* the prepare URL is a non-HTTPS URL on the base origin and is refused
C5_Witness ==
  /\ pc = "done"
  /\ failedAt = "prepare"
  /\ postPrepareSigningUrl.scheme # "https"
  /\ OriginOf(postPrepareSigningUrl) = BaseOrigin
  /\ result.error = "ProtocolInsecureError"
  /\ calls = <<>>

\* C6: the CORS configuration call and every call of a flow without CORS
\* negotiation are same-origin with same-origin credentials; a call is cors
\* with credentials included only after enableCors has set corsOrigin.
C6_CredentialsOnlyAfterCors ==
  \A i \in CallIndexes :
    IF calls[i].caller = "cors" \/ getCorsConfigUrl = NoUrl
      THEN calls[i].mode = "same-origin" /\ calls[i].credentials = "same-origin"
      ELSE /\ calls[i].mode = "cors"
           /\ calls[i].credentials = "include"
           /\ corsOrigin # NoOrigin

\* the three calls of a flow with CORS negotiation have been issued
C6_Witness ==
  /\ Len(calls) = 3
  /\ calls[1].mode = "same-origin"
  /\ calls[3].mode = "cors"

\* C7: when sign has returned, the channel it holds has been closed exactly
\* once; no channel is closed before sign returns, none is closed twice.
C7_HeldChannelClosedOnce ==
  /\ \A c \in Channels : closeCount[c] <= 1
  /\ pc # "done" => \A c \in Channels : closeCount[c] = 0
  /\ pc = "done" => (nativeAppService # 0 /\ closeCount[nativeAppService] = 1)

\* sign has returned after the re-connect replaced the first channel
C7_Witness ==
  /\ pc = "done"
  /\ nativeAppService = 2
  /\ chanState[2] = "connected"
  /\ closeCount[2] = 1

\* C8: sign returns one tagged result, SIGN_SUCCESS or SIGN_FAILURE with a
\* serialized error, and no exception escapes it.
C8_NoExceptionEscapes ==
  /\ thrown = "none"
  /\ pc # "done" => result = NoResult
  /\ pc = "done" =>
       \/ result.action = "SIGN_SUCCESS" /\ result.error = "none"
       \/ result.action = "SIGN_FAILURE" /\ result.error # "none"

\* a malformed URL made a step throw a TypeError, returned as SIGN_FAILURE
C8_Witness ==
  /\ pc = "done"
  /\ result.action = "SIGN_FAILURE"
  /\ result.error = "TypeError"

\* C9: every sign invocation eventually returns, whichever peer stays silent.
C9_SignEventuallyReturns == <>(pc = "done")

\* C10: when the timer of the get-signing-certificate race fires first, sign
\* returns SIGN_FAILURE with UserTimeout, the channel is closed exactly once,
\* no prepare call is issued, and a late native response changes nothing.
C10_CertificateTimeout ==
  timedOut = "cert"
    => /\ pc = "done"
       /\ result = [action |-> "SIGN_FAILURE", error |-> "UserTimeoutError",
                    response |-> NoResp]
       /\ closeCount[1] = 1
       /\ closeCount[2] = 0
       /\ CallsOf("prepare") = {}
       /\ fpc \in {"idle", "settled"}

\* the native response arrived after the timer of the certificate step
C10_Witness ==
  /\ timedOut = "cert"
  /\ nativePending = {}
  /\ pc = "done"

\* the relayed finalize call has resolved while sign was awaiting it
FinalizeResolved ==
  /\ pc = "done"
  /\ fetchFor = "finalize"
  /\ fpc = "settled"
  /\ relayed # NoResp
  /\ timedOut # "finalize"

\* C11: when every step succeeds and the finalize call resolves with ok and
\* without a hook error before its timer, sign returns SIGN_SUCCESS whose
\* response is the finalize response's own fields, without certificate
\* metadata and without anything of the prepare response.
C11_SuccessMirrorsFinalize ==
  (FinalizeResolved /\ relayed.ok /\ fetchError = "none")
    => result = [action |-> "SIGN_SUCCESS", error |-> "none", response |-> relayed]

\* sign has returned SIGN_SUCCESS after a prepare and a finalize call
C11_Witness ==
  /\ pc = "done"
  /\ result.action = "SIGN_SUCCESS"
  /\ result.response.body = FinalBody
  /\ prepareDocumentResult.body = DocBody
  /\ CallsOf("prepare") # {}
  /\ CallsOf("finalize") # {}

\* C12: a fetch whose relayed response has ok = false and whose hook recorded
\* no error fails with ServerRejected carrying that response; when this is the
\* finalize call, sign returns SIGN_FAILURE with ServerRejected and the
\* response snapshot.
C12_ServerRejectedCarriesSnapshot ==
  /\ (fpc = "settled" /\ relayed # NoResp /\ ~ relayed.ok /\ fetchError = "none")
       => fetchOutcome = [state |-> "rejected", kind |-> "ServerRejectedError",
                          response |-> relayed]
  /\ (FinalizeResolved /\ ~ relayed.ok /\ fetchError = "none")
       => result = [action |-> "SIGN_FAILURE", error |-> "ServerRejectedError",
                    response |-> relayed]

\* the finalize call was answered with HTTP 400 after all earlier steps succeeded
C12_Witness ==
  /\ pc = "done"
  /\ failedAt = "finalize"
  /\ result.error = "ServerRejectedError"
  /\ result.response.status = 400
  /\ result.response.body = FinalBody

\* C13: while a call is in flight its hook is registered exactly when the
\* interception permission was granted; before the call is issued and once
\* the fetch has settled, on any exit path, no hook is registered.
C13_HookScopedToCall ==
  /\ fpc = "inflight"
       => listeners = (IF hasWebRequestPermission THEN {OwnListener} ELSE {})
  /\ fpc # "inflight" => listeners = {}

\* a fetch with a registered hook has settled by rejection of the relayed call
C13_Witness ==
  /\ fpc = "settled"
  /\ hasWebRequestPermission
  /\ fetchOutcome = FetchRelayFailure
  /\ listeners = {}

(***************************************************************************)
(* C14 and C19 are stated after the session-level specification below.     *)
(***************************************************************************)

C16_CorsAllOrNothing ==
  /\ (pc = "done" /\ failedAt = "cors")
       => /\ corsOrigin = NoOrigin
          /\ result.action = "SIGN_FAILURE"
          /\ \A c \in Channels : chanState[c] # "connected"
          /\ commands = <<>>
          /\ CallsOf("prepare") = {}
          /\ CallsOf("finalize") = {}
          /\ (relayed.ok /\ fetchError = "none" /\ relayed.body.kind \in {"absent", "empty"})
               => result.error = "MissingParameterError"
          /\ (relayed.ok /\ fetchError = "none" /\ relayed.body.kind = "invalid")
               => result.error = "Error:invalid origin"
  /\ (getCorsConfigUrl # NoUrl /\ corsOrigin = NoOrigin /\ pc \notin {"start", "cors"})
       => (pc = "done" /\ failedAt = "cors")

\* the configuration document lacks signUrlOrigin
C16_Witness ==
  /\ pc = "done"
  /\ failedAt = "cors"
  /\ relayed.ok
  /\ relayed.body.kind = "absent"
  /\ result.error = "MissingParameterError"

\* the get-signing-certificate command was answered with a certificate
CertificateReceived ==
  /\ Len(commands) >= 1
  /\ commands[1].command = "get-signing-certificate"
  /\ commands[1].chan = 1
  /\ commands[1].reply = "ok"

\* C17: the prepare call is issued only after a certificate was received; the
\* sign command is sent only after the prepare call returned successfully, on
\* a new connected channel; the finalize call is issued only after a signature
\* was received; after a failure or timeout at a step no later step starts.
C17_StepsStrictlyOrdered ==
  /\ Len(commands) <= 2
  /\ (CallsOf("prepare") # {} \/ fetchFor \in {"prepare", "finalize"}) => CertificateReceived
  /\ Len(commands) = 2
       => /\ commands[2].command = "sign"
          /\ commands[2].chan # commands[1].chan
          /\ chanState[commands[2].chan] = "connected"
          /\ CallsOf("prepare") # {}
          /\ prepareDocumentResult.ok
  /\ (CallsOf("finalize") # {} \/ fetchFor = "finalize")
       => (Len(commands) = 2 /\ commands[2].reply \in {"ok", "noalgos"})
  /\ (pc = "done" /\ failedAt \in {"cors", "connect1"})
       => (commands = <<>> /\ fetchFor \notin {"prepare", "finalize"})
  /\ (pc = "done" /\ failedAt = "cert")
       => (Len(commands) <= 1 /\ fetchFor \notin {"prepare", "finalize"})
  /\ (pc = "done" /\ failedAt = "prepare")
       => (Len(commands) = 1 /\ chanState[2] = "none" /\ fetchFor # "finalize")
  /\ (pc = "done" /\ failedAt = "connect2")
       => (Len(commands) = 1 /\ fetchFor # "finalize")
  /\ (pc = "done" /\ failedAt = "sig")
       => (CallsOf("finalize") = {} /\ fetchFor # "finalize")

\* the prepare call, abandoned at its timeout, resolved with ok afterwards
C17_Witness ==
  /\ pc = "done"
  /\ timedOut = "prepare"
  /\ fpc = "settled"
  /\ relayed.ok
  /\ chanState[2] = "none"

\* C18: when sign has returned, every channel it connected has been closed.
C18_EveryConnectedChannelClosed ==
  pc = "done" => \A c \in Channels : chanState[c] = "connected" => closeCount[c] = 1

\* C20: once sign has returned, no hook installed by the invocation is
\* registered.
C20_NoHookAfterReturn ==
  pc = "done" => listeners = {}

\* C14: once corsOrigin is set, no later enableCors or fetch of the session
\* changes it.
C14_CorsOriginImmutable ==
  [][corsOrigin # NoOrigin => corsOrigin' = corsOrigin]_vars

\* C19: a hook of this session never cancels a call of another session, and
\* an error is recorded for this session's call only by the hook run on its
\* own response.
C19_SessionsDoNotInterfere ==
  /\ other.state # "cancelled"
  /\ fetchError # "none" => seen.cancel

====
